---- MODULE Spec2Model ----
(***************************************************************************)
(* Model of the WEI workflow engine.                                       *)
(*                                                                         *)
(*  - Spec     : the action-lock state machine of one REST module          *)
(*               (src/wei/modules/rest_module.py): the startup thread, the *)
(*               lifespan's shutdown part and the /action request threads. *)
(*               Every attribute read and attribute write of state.status  *)
(*               and state.error is its own step, because the /action      *)
(*               route is a plain `def` that the server runs on worker     *)
(*               threads and nothing in the module serialises them.        *)
(*  - FairSpec : Spec with the threads scheduled fairly.                   *)
(*  - SpecRun  : one WorkflowRunner (src/wei/core/workflow.py) constructed *)
(*               for a workflow and driven through run_flow, up to MaxRuns *)
(*               times.                                                    *)
(*  - SpecExp  : one call of Experiment.await_runs (src/wei/exp_app.py)    *)
(*               while the server moves the listed runs on.                *)
(*  - SpecTcp  : one step dispatched through wei_tcp_callback              *)
(*               (src/rpl_wei/executors/tcp_executor.py) and recorded.     *)
(*  - SpecRunRepeated : SpecRun's runner, for the workflows that list a     *)
(*               step name more than once.                                 *)
(*  - SpecRunOtherPayload : SpecRun's runner, constructed with a payload   *)
(*               that differs from the one given to run_flow.              *)
(*  - SpecJobs : the submissions of submit_job (src/rpl_wei/server.py) and *)
(*               the workers that take jobs off the queue.                 *)
(*  - SpecWei  : one WEI client (src/rpl_wei/wei_client_base.py) whose     *)
(*               run_flow is called up to MaxRuns times.                   *)
(***************************************************************************)
EXTENDS Integers, Sequences, FiniteSets, TLC

(***************************************************************************)
(* Bounds                                                                  *)
(***************************************************************************)
\* number of /action requests that can be sent to the module
NumReq == 2

Req == 1..NumReq

(***************************************************************************)
(* The module: state.status, state.error, the threads' positions           *)
(***************************************************************************)
VARIABLES
    status,      \* state.status : "INIT" | "IDLE" | "BUSY" | "ERROR"
    error,       \* state.error  : "None" or the text of an exception
    startup,     \* position of the thread running _startup_runner
    lifespan,    \* position of _lifespan after its yield
    pc,          \* pc[r]    : position of request r inside the /action route
    act,         \* act[r]   : the action_handle of request r
    seen,        \* seen[r]  : the status get_action_lock read for r ("none" before)
    calls,       \* calls[r] : "none" | "handler" (action_handler entered)
                 \*            | "function" (a registered action function ran)
    resp         \* resp[r]  : the HTTP answer of r (NoResp before it is sent)

\* the workflow runner
VARIABLES
    flowdef0,     \* the workflow's flowdef as it was handed to WorkflowRunner(...)
    flowdef,      \* self.workflow.flowdef: the Step objects, args included
    wfModules,    \* self.workflow.modules (names)
    wcModules,    \* the modules of the workcell
    ctorPayload,  \* the payload given to WorkflowRunner(...)
    runPayload,   \* the payload given to run_flow(...)
    rpc,          \* position of the runner
    dirs,         \* whether log_dir and result_dir have been created
    selfSteps,    \* self.steps, built by __init__
    steps,        \* run_flow's local `steps`
    idx,          \* position of run_flow's loop in `steps`
    hist,         \* run_flow's local `hist`
    outstanding,  \* the execute_step calls that have not returned
    dispatched,   \* every execute_step call of this run_flow call: step name, args
    notes,        \* every POST to the location tracker in this run_flow call
    record,       \* what this run_flow call returned
    earlierIds    \* the run ids in the records of the earlier run_flow calls

\* Experiment.await_runs (src/wei/exp_app.py) and the runs it polls
VARIABLES
    run_list,     \* the argument of await_runs: a list of run ids
    runState,     \* the status the server reports for each run
    results,      \* await_runs' local `results`
    epc,          \* position of await_runs
    ei            \* position of `for id in run_list`

\* wei_tcp_callback (src/rpl_wei/executors/tcp_executor.py) for one step and
\* the history entry run_flow makes of what it returns
VARIABLES
    tpc,          \* position of the dispatch
    tcpResp,      \* the text read from the socket, as what eval makes of it
    tcpOut,       \* the tuple wei_tcp_callback returns
    tcpHist,      \* the entry written into hist for the step
    tcpRan        \* whether eval has run a call written in the reply

\* submit_job (src/rpl_wei/server.py) and the task queue it fills
VARIABLES
    queue,        \* task_queue.jobs: the ids of the jobs waiting, oldest first
    jpc,          \* position of each submission in submit_job
    answer        \* the response content of each submission

\* the WEI client (src/rpl_wei/wei_client_base.py)
VARIABLES
    wflowdef,     \* self.flowdef: the names of the steps
    wei_run_id,   \* self.run_id
    run_logger,   \* self.run_logger
    wpc,          \* position of the client
    wi,           \* position of `for step in self.flowdef`
    executed,     \* the steps _execute_step has finished in this run_flow call
    wcalls,       \* number of run_flow calls made
    usedIds       \* the run ids of the run_flow calls that have completed

jobVars == <<queue, jpc, answer>>

weiVars == <<wflowdef, wei_run_id, run_logger, wpc, wi, executed, wcalls, usedIds>>

modVars == <<status, error, startup, lifespan, pc, act, seen, calls, resp>>

tcpVars == <<tpc, tcpResp, tcpOut, tcpHist, tcpRan>>

expVars == <<run_list, runState, results, epc, ei>>

runVars == <<flowdef0, flowdef, wfModules, wcModules, ctorPayload, runPayload, rpc, dirs,
             selfSteps, steps, idx, hist, outstanding, dispatched, notes, record,
             earlierIds>>

NoResp == [code |-> 0, status |-> "none", log |-> "none"]

\* StepResponse.step_failed(action_log=error_message) with HTTP 409
NotReadyResponse == [code |-> 409, status |-> "FAILED", log |-> "not_ready"]

\* StepResponse.step_failed(action_log="An exception occurred ...")
ExceptionResponse == [code |-> 200, status |-> "FAILED", log |-> "exception"]

\* the actions registered on the module (state.actions), in list order:
\* name, and what the registered function does when it is called
Actions ==
    << [name |-> "succeed", function |-> "step_succeeded"],
       [name |-> "fail",    function |-> "step_failed"],
       [name |-> "crash",   function |-> "raises"],
       [name |-> "junk",    function |-> "not_a_response"] >>

\* the action_handle values a request may carry; "nosuch" is not registered
ActionHandles == {"succeed", "fail", "crash", "junk", "nosuch"}

\* action_handler's loop `for module_action in state.actions`: the index of
\* the first registered action with the requested name, 0 when none has it
RECURSIVE FindAction(_, _)
FindAction(name, i) ==
    IF i > Len(Actions) THEN 0
    ELSE IF Actions[i].name = name THEN i
    ELSE FindAction(name, i + 1)

\* action_handler: what the call does for the request named `name`:
\*   ret  : "SUCCEEDED" | "FAILED" (a StepResponse), "invalid" (an object
\*          that is no StepResponse), "raise" (an exception propagates)
\*   ran  : whether a registered action function was called
ActionHandlerResult(name) ==
    LET i == FindAction(name, 1) IN
    IF Len(Actions) = 0 THEN [ret |-> "FAILED", ran |-> FALSE]
    ELSE IF i = 0 THEN [ret |-> "FAILED", ran |-> FALSE]
    ELSE IF Actions[i].function = "None" THEN [ret |-> "FAILED", ran |-> FALSE]
    ELSE IF Actions[i].function = "step_succeeded" THEN [ret |-> "SUCCEEDED", ran |-> TRUE]
    ELSE IF Actions[i].function = "step_failed" THEN [ret |-> "FAILED", ran |-> TRUE]
    ELSE IF Actions[i].function = "raises" THEN [ret |-> "raise", ran |-> TRUE]
    ELSE [ret |-> "invalid", ran |-> TRUE]

\* str(exception) of the exception a request ends in
ExceptionText(name) ==
    IF ActionHandlerResult(name).ret = "raise" THEN "action_error" ELSE "validation_error"

\* (mutant) a lock test that also admits a module that is still starting
LockFreeOrInit(s) == s \in {"IDLE", "INIT"}

\* get_action_lock's test `state.status == ModuleStatus.IDLE`
LockFree(s) == s = "IDLE"

\* release_action_lock's test `state.status == ModuleStatus.BUSY`
LockHeld(s) == s = "BUSY"

\* the route's `except Exception:` around get_action_lock: where a request
\* whose get_action_lock raised continues
RejectedPc == "done"

\* a request that is between a successful get_action_lock and the end of its
\* release_action_lock
Holding(r) == pc[r] \in {"handler", "release", "release_set"}

\* a request that has entered the route and not yet answered
InFlight(r) == pc[r] \notin {"idle", "done"}

ModInit ==
    /\ status = "INIT"
    /\ error = "None"
    /\ startup = "handler"
    /\ lifespan = "serving"
    /\ pc = [r \in Req |-> "idle"]
    /\ act = [r \in Req |-> "none"]
    /\ seen = [r \in Req |-> "none"]
    /\ calls = [r \in Req |-> "none"]
    /\ resp = [r \in Req |-> NoResp]

(***************************************************************************)
(* _startup_runner, on its own thread                                      *)
(***************************************************************************)
\* state.startup_handler(state=state) returns
StartupReturns ==
    /\ startup = "handler"
    /\ startup' = "set_idle"
    /\ UNCHANGED <<jobVars, weiVars, tcpVars, expVars, runVars, status, error, lifespan, pc, act, seen, calls, resp>>

\* state.startup_handler(state=state) raises
StartupRaises ==
    /\ startup = "handler"
    /\ startup' = "eh_status"
    /\ UNCHANGED <<jobVars, weiVars, tcpVars, expVars, runVars, status, error, lifespan, pc, act, seen, calls, resp>>

\* else: state.status = ModuleStatus.IDLE
StartupSetIdle ==
    /\ startup = "set_idle"
    /\ status' = "IDLE"
    /\ startup' = "done_ok"
    /\ UNCHANGED <<jobVars, weiVars, tcpVars, expVars, runVars, error, lifespan, pc, act, seen, calls, resp>>

\* exception_handler: state.status = ModuleStatus.ERROR
StartupEhStatus ==
    /\ startup = "eh_status"
    /\ status' = "ERROR"
    /\ startup' = "eh_error"
    /\ UNCHANGED <<jobVars, weiVars, tcpVars, expVars, runVars, error, lifespan, pc, act, seen, calls, resp>>

\* exception_handler: state.error = str(exception)
StartupEhError ==
    /\ startup = "eh_error"
    /\ error' = "startup_error"
    /\ startup' = "extra_error"
    /\ UNCHANGED <<jobVars, weiVars, tcpVars, expVars, runVars, status, lifespan, pc, act, seen, calls, resp>>

\* (mutant) the closing assignment of _startup_runner sets IDLE on every path
StartupExtraIdle ==
    /\ startup = "extra_error"
    /\ status' = "IDLE"
    /\ startup' = "done_failed"
    /\ UNCHANGED <<jobVars, weiVars, tcpVars, expVars, runVars, error, lifespan, pc, act, seen, calls, resp>>

\* state.status = ModuleStatus.ERROR  ("make extra sure")
StartupExtraError ==
    /\ startup = "extra_error"
    /\ status' = "ERROR"
    /\ startup' = "done_failed"
    /\ UNCHANGED <<jobVars, weiVars, tcpVars, expVars, runVars, error, lifespan, pc, act, seen, calls, resp>>

StartupThread ==
    \/ StartupReturns
    \/ StartupRaises
    \/ StartupSetIdle
    \/ StartupEhStatus
    \/ StartupEhError
    \/ StartupExtraError

(***************************************************************************)
(* _lifespan after the yield: the server has stopped accepting requests    *)
(* and has let the requests in progress finish; the startup thread is not  *)
(* joined.                                                                 *)
(***************************************************************************)
ShutdownBegins ==
    /\ lifespan = "serving"
    /\ \A r \in Req : ~InFlight(r)
    /\ lifespan' = "shutdown_handler"
    /\ UNCHANGED <<jobVars, weiVars, tcpVars, expVars, runVars, status, error, startup, pc, act, seen, calls, resp>>

\* app.state.shutdown_handler(app.state) returns
ShutdownReturns ==
    /\ lifespan = "shutdown_handler"
    /\ lifespan' = "stopped"
    /\ UNCHANGED <<jobVars, weiVars, tcpVars, expVars, runVars, status, error, startup, pc, act, seen, calls, resp>>

\* app.state.shutdown_handler(app.state) raises
ShutdownRaises ==
    /\ lifespan = "shutdown_handler"
    /\ lifespan' = "eh_status"
    /\ UNCHANGED <<jobVars, weiVars, tcpVars, expVars, runVars, status, error, startup, pc, act, seen, calls, resp>>

ShutdownEhStatus ==
    /\ lifespan = "eh_status"
    /\ status' = "ERROR"
    /\ lifespan' = "eh_error"
    /\ UNCHANGED <<jobVars, weiVars, tcpVars, expVars, runVars, error, startup, pc, act, seen, calls, resp>>

ShutdownEhError ==
    /\ lifespan = "eh_error"
    /\ error' = "shutdown_error"
    /\ lifespan' = "stopped"
    /\ UNCHANGED <<jobVars, weiVars, tcpVars, expVars, runVars, status, startup, pc, act, seen, calls, resp>>

Lifespan ==
    \/ ShutdownBegins
    \/ ShutdownReturns
    \/ ShutdownRaises
    \/ ShutdownEhStatus
    \/ ShutdownEhError

(***************************************************************************)
(* The /action route, one worker thread per request                        *)
(***************************************************************************)
\* a request arrives: ActionRequest(name=action_handle, ...)
Arrive(r, a) ==
    /\ lifespan = "serving"
    /\ pc[r] = "idle"
    /\ \A q \in Req : q < r => pc[q] # "idle"
    /\ pc' = [pc EXCEPT ![r] = "get_lock"]
    /\ act' = [act EXCEPT ![r] = a]
    /\ UNCHANGED <<jobVars, weiVars, tcpVars, expVars, runVars, status, error, startup, lifespan, seen, calls, resp>>

\* get_action_lock: `if state.status == ModuleStatus.IDLE` reads the status;
\* otherwise it raises and the route answers 409
GetLockTest(r) ==
    /\ pc[r] = "get_lock"
    /\ seen' = [seen EXCEPT ![r] = status]
    /\ IF LockFree(status)
       THEN /\ pc' = [pc EXCEPT ![r] = "set_busy"]
            /\ resp' = resp
       ELSE /\ pc' = [pc EXCEPT ![r] = RejectedPc]
            /\ resp' = [resp EXCEPT ![r] = NotReadyResponse]
    /\ UNCHANGED <<jobVars, weiVars, tcpVars, expVars, runVars, status, error, startup, lifespan, act, calls>>

\* get_action_lock: state.status = ModuleStatus.BUSY
GetLockSet(r) ==
    /\ pc[r] = "set_busy"
    /\ status' = "BUSY"
    /\ pc' = [pc EXCEPT ![r] = "handler"]
    /\ UNCHANGED <<jobVars, weiVars, tcpVars, expVars, runVars, error, startup, lifespan, act, seen, calls, resp>>

\* step_result = state.action_handler(state=state, action=action_request)
ActionHandler(r) ==
    /\ pc[r] = "handler"
    /\ LET res == ActionHandlerResult(act[r]) IN
       /\ calls' = [calls EXCEPT ![r] = IF res.ran THEN "function" ELSE "handler"]
       /\ pc' = [pc EXCEPT ![r] = IF res.ret = "raise" THEN "eh_status" ELSE "release"]
    /\ UNCHANGED <<jobVars, weiVars, tcpVars, expVars, runVars, status, error, startup, lifespan, act, seen, resp>>

\* release_action_lock: `if state.status == ModuleStatus.BUSY` reads the status
ReleaseTest(r) ==
    /\ pc[r] = "release"
    /\ pc' = [pc EXCEPT ![r] = IF LockHeld(status) THEN "release_set" ELSE "validate"]
    /\ UNCHANGED <<jobVars, weiVars, tcpVars, expVars, runVars, status, error, startup, lifespan, act, seen, calls, resp>>

\* release_action_lock: state.status = ModuleStatus.IDLE
ReleaseSet(r) ==
    /\ pc[r] = "release_set"
    /\ status' = "IDLE"
    /\ pc' = [pc EXCEPT ![r] = "validate"]
    /\ UNCHANGED <<jobVars, weiVars, tcpVars, expVars, runVars, error, startup, lifespan, act, seen, calls, resp>>

\* StepResponse.model_validate / StepFileResponse.model_validate, then the
\* route returns step_result
Validate(r) ==
    /\ pc[r] = "validate"
    /\ LET res == ActionHandlerResult(act[r]) IN
       IF res.ret = "invalid"
       THEN /\ pc' = [pc EXCEPT ![r] = "eh_status"]
            /\ resp' = resp
       ELSE /\ pc' = [pc EXCEPT ![r] = "done"]
            /\ resp' = [resp EXCEPT ![r] =
                          [code |-> 200, status |-> res.ret, log |-> "handler"]]
    /\ UNCHANGED <<jobVars, weiVars, tcpVars, expVars, runVars, status, error, startup, lifespan, act, seen, calls>>

\* except Exception as e: exception_handler: state.status = ModuleStatus.ERROR
ActionEhStatus(r) ==
    /\ pc[r] = "eh_status"
    /\ status' = "ERROR"
    /\ pc' = [pc EXCEPT ![r] = "eh_error"]
    /\ UNCHANGED <<jobVars, weiVars, tcpVars, expVars, runVars, error, startup, lifespan, act, seen, calls, resp>>

\* exception_handler: state.error = str(exception); then the route answers
\* StepResponse.step_failed(action_log="An exception occurred ...")
ActionEhError(r) ==
    /\ pc[r] = "eh_error"
    /\ error' = ExceptionText(act[r])
    /\ pc' = [pc EXCEPT ![r] = "done"]
    /\ resp' = [resp EXCEPT ![r] = ExceptionResponse]
    /\ UNCHANGED <<jobVars, weiVars, tcpVars, expVars, runVars, status, startup, lifespan, act, seen, calls>>

Request(r) ==
    \/ \E a \in ActionHandles : Arrive(r, a)
    \/ GetLockTest(r)
    \/ GetLockSet(r)
    \/ ActionHandler(r)
    \/ ReleaseTest(r)
    \/ ReleaseSet(r)
    \/ Validate(r)
    \/ ActionEhStatus(r)
    \/ ActionEhError(r)

ModNext ==
    \/ StartupThread
    \/ Lifespan
    \/ \E r \in Req : Request(r)

(***************************************************************************)
(* The workflow runner: data                                               *)
(***************************************************************************)
\* longest flowdef of the workflows tried
MaxSteps == 3

\* number of run_flow calls made on the runner
MaxRuns == 2

\* longest run_list handed to await_runs
MaxList == 3

\* an args dict / a payload dict: a sequence of items [k, v] in insertion order
Arg(k, v) == [k |-> k, v |-> v]

\* the steps a workflow is built from (name, module, args)
StepPool ==
    { [name |-> "transfer", module |-> "m1",
       args |-> <<Arg("source", "A"), Arg("target", "B")>>],
      [name |-> "measure", module |-> "m1", args |-> <<>>],
      [name |-> "mix", module |-> "m2",
       args |-> <<Arg("amount", "payload.foo"), Arg("again", "payload.foo"),
                  Arg("speed", "payload.missing")>>],
      [name |-> "save", module |-> "m1",
       args |-> <<Arg("path", "local_run_results"), Arg("note", "lit")>>],
      [name |-> "park", module |-> "m1",
       args |-> <<Arg("source", "D"), Arg("target", "C")>>],
      [name |-> "load", module |-> "m1",
       args |-> <<Arg("target", "B"), Arg("slot", "int 1")>>],
      [name |-> "archive", module |-> "m1",
       args |-> <<Arg("out", "local_run_results"), Arg("copy", "local_run_results")>>] }

\* whether the steps of a flowdef have pairwise different names
UniqueNames(flow) ==
    \A a, b \in 1..Len(flow) : flow[a].name = flow[b].name => a = b

\* the flowdefs tried: 1..MaxSteps steps of the pool, uniquely named
Flowdefs ==
    { f \in UNION { [1..n -> StepPool] : n \in 1..MaxSteps } : UniqueNames(f) }

\* the payloads tried: no payload (None), {} and {"foo": ...}
NoPayload == [isDict |-> FALSE, items |-> <<>>]
Payloads ==
    { NoPayload,
      [isDict |-> TRUE, items |-> <<>>],
      [isDict |-> TRUE, items |-> <<Arg("foo", "foo_value")>>] }

\* a payload for the constructor that holds another value for "foo" than the
\* payload of run_flow does
OtherPayload == [isDict |-> TRUE, items |-> <<Arg("foo", "foo_ctor")>>]

\* workflow.modules as declared by the workflow, and the workcell's modules
ModuleLists == { <<"m1", "m2">>, <<"m1">> }
WorkcellModules == { {"m1", "m2"}, {"m1"} }

\* workcell.locations: module -> location name -> location value; the value
\* of the locations C and D is the name itself, and one location is named "1"
Locations ==
    ("m1" :> ("A" :> "posA" @@ "B" :> "posB" @@ "C" :> "C" @@ "D" :> "D"
              @@ "1" :> "pos1"))

\* str(self.result_dir)
ResultDir == "result_dir"

\* self.run_id
RunId == "run_1"

\* the object None
PyNone == "obj None"

\* str(value): a string is its own text, the integer 1 (written "int 1"
\* here) has the text "1" and None the text "None"
Str(v) ==
    CASE v = "int 1" -> "1"
      [] v = PyNone -> "None"
      [] OTHER -> v

\* f"payload.{key}" unless "payload." is part of the key already
PayloadKey(key) ==
    CASE key = "foo" -> "payload.foo"
      [] key = "bar" -> "payload.bar"
      [] OTHER -> key

\* arg_values.index(x) + 1 when x in arg_values, else 0
RECURSIVE IndexFrom(_, _, _)
IndexFrom(values, x, j) ==
    IF j > Len(values) THEN 0
    ELSE IF values[j] = x THEN j
    ELSE IndexFrom(values, x, j + 1)

Index(values, x) == IndexFrom(values, x, 1)

\* step.args[key] = value for the key at position j
SetArg(args, j, value) == [args EXCEPT ![j] = Arg(args[j].k, value)]

\* keys of a dict
Keys(d) == { d[j].k : j \in 1..Len(d) }

\* d[key] = value on a dict kept in insertion order
DictSet(d, key, value) ==
    IF key \in Keys(d)
    THEN [j \in 1..Len(d) |-> IF d[j].k = key THEN Arg(key, value) ELSE d[j]]
    ELSE Append(d, Arg(key, value))

\* d[key] for a key of d
DictGet(d, key) == d[CHOOSE j \in 1..Len(d) : d[j].k = key].v

\* the sequence of keys of a dict
KeySeq(d) == [j \in 1..Len(d) |-> d[j].k]

(***************************************************************************)
(* init_flow                                                               *)
(***************************************************************************)
NoRecord == [returned |-> FALSE, hist |-> <<>>, run_id |-> "none"]

\* workcell.find_step_module(name): whether the workcell has the module
FindStepModule(wc, name) == name \in wc

\* whether the location loop is entered for the step
HasLocations(step) ==
    Len(step.args) > 0 /\ DOMAIN Locations # {} /\ step.module \in DOMAIN Locations

\* the first arg at which `workcell.locations[step.module][value]` raises
\* KeyError: str(value) is a location name and value itself is no key;
\* 0 when the loop raises nowhere
RECURSIVE KeyErrorFrom(_, _)
KeyErrorFrom(step, j) ==
    IF j > Len(step.args) THEN 0
    ELSE IF /\ Str(step.args[j].v) \in DOMAIN Locations[step.module]
            /\ step.args[j].v \notin DOMAIN Locations[step.module]
         THEN j
         ELSE KeyErrorFrom(step, j + 1)

KeyErrorAt(step) == IF HasLocations(step) THEN KeyErrorFrom(step, 1) ELSE 0

\* "replace position names with actual positions": the args after the loop,
\* or when the loop raised
LocationArgs(step) ==
    IF HasLocations(step)
    THEN [j \in 1..Len(step.args) |->
            IF /\ Str(step.args[j].v) \in DOMAIN Locations[step.module]
               /\ (KeyErrorAt(step) = 0 \/ j < KeyErrorAt(step))
            THEN Arg(step.args[j].k, Locations[step.module][step.args[j].v])
            ELSE step.args[j]]
    ELSE step.args

\* arg_dict["locations"] after the loop: key -> the location name replaced
RECURSIVE LocationMapFrom(_, _)
LocationMapFrom(step, j) ==
    IF j > Len(step.args) THEN <<>>
    ELSE IF Str(step.args[j].v) \in DOMAIN Locations[step.module]
         THEN <<Arg(step.args[j].k, step.args[j].v)>> \o LocationMapFrom(step, j + 1)
         ELSE LocationMapFrom(step, j + 1)

LocationMap(step) == IF HasLocations(step) THEN LocationMapFrom(step, 1) ELSE <<>>

\* an injection that puts "None" into every arg that is still a payload
\* reference once the payload's items have been handled
InjectPayloadOrNone(args, arg_values, items, n) ==
    [j \in 1..Len(args) |->
        IF args[j].v \in {"payload.foo", "payload.missing"}
        THEN Arg(args[j].k, "None")
        ELSE args[j]]

\* `for key, value in payload.items()`: from item n on, with arg_values the
\* values zipped before the loop
RECURSIVE InjectPayload(_, _, _, _)
InjectPayload(args, arg_values, items, n) ==
    IF n > Len(items) THEN args
    ELSE LET at == Index(arg_values, PayloadKey(items[n].k)) IN
         InjectPayload(IF at > 0 THEN SetArg(args, at, items[n].v) ELSE args,
                       arg_values, items, n + 1)

\* `if "local_run_results" in arg_values`
InjectResultDir(args, arg_values) ==
    LET at == Index(arg_values, "local_run_results") IN
    IF at > 0 THEN SetArg(args, at, ResultDir) ELSE args

\* whether init_flow's `continue` skips the step (it is not appended)
Skipped(step, payload) == payload.isDict /\ Len(step.args) = 0

\* step.args when init_flow has handled the step
ResolvedArgs(step, payload) ==
    LET located == LocationArgs(step) IN
    IF payload.isDict /\ Len(located) > 0
    THEN LET arg_values == [j \in 1..Len(located) |-> located[j].v] IN
         InjectResultDir(InjectPayload(located, arg_values, payload.items, 1), arg_values)
    ELSE located

\* a check of the step's module against the workcell alone
StepModuleInWorkcell(step, wf, wc) == FindStepModule(wc, step.module)

\* the checks init_flow makes for a step before it touches its args
StepModuleOk(step, wf, wc) ==
    /\ FindStepModule(wc, step.module)
    /\ \E m \in 1..Len(wf) : wf[m] = step.module

\* the loop `for step in self.workflow.flowdef` from step n on: flow is the
\* flowdef as changed so far, out the steps appended so far. An entry of out
\* holds the position of its Step object in the flowdef (the object itself is
\* shared with the workflow) and its locations map.
RECURSIVE InitFlowFrom(_, _, _, _, _, _)
InitFlowFrom(flow, out, n, payload, wf, wc) ==
    IF n > Len(flow) THEN [ok |-> TRUE, flow |-> flow, steps |-> out]
    ELSE IF ~StepModuleOk(flow[n], wf, wc) THEN [ok |-> FALSE, flow |-> flow, steps |-> out]
    ELSE IF KeyErrorAt(flow[n]) > 0
         THEN [ok |-> FALSE, flow |-> [flow EXCEPT ![n].args = LocationArgs(flow[n])],
               steps |-> out]
    ELSE LET entry == [step |-> n, locations |-> LocationMap(flow[n])]
             flow2 == [flow EXCEPT ![n].args = ResolvedArgs(flow[n], payload)]
         IN InitFlowFrom(flow2,
                         IF Skipped(flow[n], payload) THEN out ELSE Append(out, entry),
                         n + 1, payload, wf, wc)

\* init_flow(workcell, callbacks, payload, simulate)
InitFlow(flow, payload, wf, wc) ==
    IF \E m \in 1..Len(wf) : ~FindStepModule(wc, wf[m])
    THEN [ok |-> FALSE, flow |-> flow, steps |-> <<>>]
    ELSE InitFlowFrom(flow, <<>>, 1, payload, wf, wc)

(***************************************************************************)
(* WorkflowRunner.__init__ and run_flow                                    *)
(***************************************************************************)
\* the arguments of __init__ drawn from the given sets, before __init__ runs
RunInitWith(flows, ctors, runs, wfs, wcs) ==
    /\ flowdef0 \in flows
    /\ flowdef = flowdef0
    /\ wfModules \in wfs
    /\ wcModules \in wcs
    /\ ctorPayload \in ctors
    /\ runPayload \in runs
    /\ rpc = "new"
    /\ dirs = FALSE
    /\ selfSteps = <<>>
    /\ steps = <<>>
    /\ idx = 1
    /\ hist = <<>>
    /\ outstanding = {}
    /\ dispatched = <<>>
    /\ notes = <<>>
    /\ record = NoRecord
    /\ earlierIds = <<>>

RunInit == RunInitWith(Flowdefs, Payloads, Payloads, ModuleLists, WorkcellModules)

\* a runner for a workflow that lists a step name more than once; its modules
\* are all in the workcell and no payload is given: init_flow's checks compare
\* modules only, step names are not looked at
RepeatedFlowdefs ==
    { f \in UNION { [1..n -> StepPool] : n \in 2..MaxSteps } : ~UniqueNames(f) }

RunInitRepeated ==
    RunInitWith(RepeatedFlowdefs, {NoPayload}, {NoPayload},
                {<<"m1", "m2">>}, {{"m1", "m2"}})

\* a runner constructed with a payload whose value for "foo" run_flow's
\* payload does not hold
RunInitOtherPayload ==
    RunInitWith(Flowdefs, {OtherPayload}, Payloads, ModuleLists, WorkcellModules)

\* __init__: the run directories are made, then self.steps = init_flow(...),
\* then self.hist = {}
Construct ==
    /\ rpc = "new"
    /\ LET r == InitFlow(flowdef, ctorPayload, wfModules, wcModules) IN
       /\ dirs' = TRUE
       /\ flowdef' = r.flow
       /\ selfSteps' = (IF r.ok THEN r.steps ELSE <<>>)
       /\ rpc' = (IF r.ok THEN "constructed" ELSE "ctor_failed")
    /\ UNCHANGED <<jobVars, weiVars, tcpVars, expVars, modVars, flowdef0, earlierIds, wfModules, wcModules, ctorPayload, runPayload, steps, idx, hist,
                   outstanding, dispatched, notes, record>>

\* run_flow is called on the runner, for the first time or again after it has
\* returned: hist = {}; steps = self.init_flow(workcell, callbacks, ...)
RunFlow ==
    /\ \/ rpc = "constructed"
       \/ rpc = "returned" /\ Len(earlierIds) + 1 < MaxRuns
    /\ LET r == InitFlow(flowdef, runPayload, wfModules, wcModules) IN
       /\ flowdef' = r.flow
       /\ steps' = (IF r.ok THEN r.steps ELSE <<>>)
       /\ rpc' = (IF r.ok THEN "loop" ELSE "raised")
    /\ hist' = <<>>
    /\ idx' = 1
    /\ earlierIds' = (IF record.returned THEN Append(earlierIds, record.run_id)
                      ELSE earlierIds)
    /\ record' = NoRecord
    /\ outstanding' = {}
    /\ dispatched' = <<>>
    /\ notes' = <<>>
    /\ UNCHANGED <<jobVars, weiVars, tcpVars, expVars, modVars, flowdef0, wfModules, wcModules, ctorPayload, runPayload, dirs,
                   selfSteps>>

\* (mutant) a loop that starts execute_step and goes on to the next step
\* without waiting for the call to return
ExecuteStepNoWait ==
    /\ rpc = "loop"
    /\ idx <= Len(steps)
    /\ LET step == flowdef[steps[idx].step] IN
       /\ outstanding' = outstanding \cup {idx}
       /\ dispatched' = Append(dispatched, [name |-> step.name, args |-> step.args])
    /\ idx' = idx + 1
    /\ UNCHANGED <<jobVars, weiVars, tcpVars, expVars, modVars, flowdef0, earlierIds, flowdef, wfModules, wcModules, ctorPayload, runPayload, dirs,
                   selfSteps, steps, rpc, hist, notes, record>>

\* `for step in steps:` ... self.executor.execute_step(**step) is called; the
\* loop waits for the call
ExecuteStep ==
    /\ rpc = "loop"
    /\ idx <= Len(steps)
    /\ LET step == flowdef[steps[idx].step] IN
       /\ outstanding' = outstanding \cup {idx}
       /\ dispatched' = Append(dispatched, [name |-> step.name, args |-> step.args])
    /\ rpc' = "await"
    /\ UNCHANGED <<jobVars, weiVars, tcpVars, expVars, modVars, flowdef0, earlierIds, flowdef, wfModules, wcModules, ctorPayload, runPayload, dirs,
                   selfSteps, steps, idx, hist, notes, record>>

\* a history that takes the new outcome in front of the earlier ones
StepReturnsInFront(response) ==
    /\ rpc = "await"
    /\ idx \in outstanding
    /\ outstanding' = outstanding \ {idx}
    /\ hist' = <<Arg(flowdef[steps[idx].step].name, response)>> \o hist
    /\ rpc' = "source"
    /\ UNCHANGED <<jobVars, weiVars, tcpVars, expVars, modVars, flowdef0, earlierIds, flowdef, wfModules, wcModules, ctorPayload, runPayload, dirs,
                   selfSteps, steps, idx, dispatched, notes, record>>

\* execute_step returns (action_response, action_msg, action_log) and
\* hist[step["step"].name] = {...} is written
StepReturns(response) ==
    /\ rpc = "await"
    /\ idx \in outstanding
    /\ outstanding' = outstanding \ {idx}
    /\ hist' = DictSet(hist, flowdef[steps[idx].step].name, response)
    /\ rpc' = "source"
    /\ UNCHANGED <<jobVars, weiVars, tcpVars, expVars, modVars, flowdef0, earlierIds, flowdef, wfModules, wcModules, ctorPayload, runPayload, dirs,
                   selfSteps, steps, idx, dispatched, notes, record>>

\* a loop that caught the exception of execute_step and went on to the next step
StepRaisesCaught ==
    /\ rpc = "await"
    /\ idx \in outstanding
    /\ outstanding' = outstanding \ {idx}
    /\ rpc' = "loop"
    /\ idx' = idx + 1
    /\ UNCHANGED <<jobVars, weiVars, tcpVars, expVars, modVars, flowdef0, earlierIds, flowdef, wfModules, wcModules, ctorPayload, runPayload, dirs,
                   selfSteps, steps, hist, dispatched, notes, record>>

\* execute_step raises: the exception leaves run_flow
StepRaises ==
    /\ rpc = "await"
    /\ idx \in outstanding
    /\ outstanding' = outstanding \ {idx}
    /\ rpc' = "raised"
    /\ UNCHANGED <<jobVars, weiVars, tcpVars, expVars, modVars, flowdef0, earlierIds, flowdef, wfModules, wcModules, ctorPayload, runPayload, dirs,
                   selfSteps, steps, idx, hist, dispatched, notes, record>>

\* a source notification that carries the run's id
PostSourceRunId ==
    /\ rpc = "source"
    /\ LET locations == steps[idx].locations IN
       notes' = (IF "source" \in Keys(locations)
                 THEN Append(notes, [location |-> DictGet(locations, "source"),
                                     run_id |-> RunId])
                 ELSE notes)
    /\ rpc' = "target"
    /\ UNCHANGED <<jobVars, weiVars, tcpVars, expVars, modVars, flowdef0, earlierIds, flowdef, wfModules, wcModules, ctorPayload, runPayload, dirs,
                   selfSteps, steps, idx, hist, outstanding, dispatched, record>>

\* `if "source" in step["locations"]`: requests.post(url, params={"run_id": ""})
PostSource ==
    /\ rpc = "source"
    /\ LET locations == steps[idx].locations IN
       notes' = (IF "source" \in Keys(locations)
                 THEN Append(notes, [location |-> DictGet(locations, "source"),
                                     run_id |-> ""])
                 ELSE notes)
    /\ rpc' = "target"
    /\ UNCHANGED <<jobVars, weiVars, tcpVars, expVars, modVars, flowdef0, earlierIds, flowdef, wfModules, wcModules, ctorPayload, runPayload, dirs,
                   selfSteps, steps, idx, hist, outstanding, dispatched, record>>

\* `if "target" in step["locations"]`: requests.post(url, params={"run_id": self.run_id})
PostTarget ==
    /\ rpc = "target"
    /\ LET locations == steps[idx].locations IN
       notes' = (IF "target" \in Keys(locations)
                 THEN Append(notes, [location |-> DictGet(locations, "target"),
                                     run_id |-> RunId])
                 ELSE notes)
    /\ rpc' = "loop"
    /\ idx' = idx + 1
    /\ UNCHANGED <<jobVars, weiVars, tcpVars, expVars, modVars, flowdef0, earlierIds, flowdef, wfModules, wcModules, ctorPayload, runPayload, dirs,
                   selfSteps, steps, hist, outstanding, dispatched, record>>

\* requests.post raises (the tracker is unreachable): the exception leaves run_flow
PostRaises ==
    /\ \/ rpc = "source" /\ "source" \in Keys(steps[idx].locations)
       \/ rpc = "target" /\ "target" \in Keys(steps[idx].locations)
    /\ rpc' = "raised"
    /\ UNCHANGED <<jobVars, weiVars, tcpVars, expVars, modVars, flowdef0, earlierIds, flowdef, wfModules, wcModules, ctorPayload, runPayload, dirs,
                   selfSteps, steps, idx, hist, outstanding, dispatched, notes, record>>

\* the loop is over: return {"run_dir", "run_id", "payload", "hist"}
Return ==
    /\ rpc = "loop"
    /\ idx > Len(steps)
    /\ record' = [returned |-> TRUE, hist |-> hist, run_id |-> RunId]
    /\ rpc' = "returned"
    /\ UNCHANGED <<jobVars, weiVars, tcpVars, expVars, modVars, flowdef0, earlierIds, flowdef, wfModules, wcModules, ctorPayload, runPayload, dirs,
                   selfSteps, steps, idx, hist, outstanding, dispatched, notes>>

\* the outcomes execute_step can report
StepStatus == {"SUCCEEDED", "FAILED"}

RunNext ==
    \/ Construct
    \/ RunFlow
    \/ ExecuteStep
    \/ \E s \in StepStatus : StepReturns(s)
    \/ StepRaises
    \/ PostSource
    \/ PostTarget
    \/ PostRaises
    \/ Return

\* the runner at rest while the module is looked at
RunIdle ==
    /\ flowdef0 = <<>>
    /\ flowdef = <<>>
    /\ wfModules = <<>>
    /\ wcModules = {}
    /\ ctorPayload = NoPayload
    /\ runPayload = NoPayload
    /\ rpc = "none"
    /\ dirs = FALSE
    /\ selfSteps = <<>>
    /\ steps = <<>>
    /\ idx = 1
    /\ hist = <<>>
    /\ outstanding = {}
    /\ dispatched = <<>>
    /\ notes = <<>>
    /\ record = NoRecord
    /\ earlierIds = <<>>

\* the module before it is started, while the runner is looked at
ModIdle ==
    /\ status = "INIT"
    /\ error = "None"
    /\ startup = "none"
    /\ lifespan = "none"
    /\ pc = [r \in Req |-> "idle"]
    /\ act = [r \in Req |-> "none"]
    /\ seen = [r \in Req |-> "none"]
    /\ calls = [r \in Req |-> "none"]
    /\ resp = [r \in Req |-> NoResp]

(***************************************************************************)
(* Experiment.await_runs (src/wei/exp_app.py)                              *)
(***************************************************************************)
\* the run ids that can be listed
RunIds == {"r1", "r2"}

\* the run lists tried: up to MaxList ids, repetitions included
RunLists == UNION { [1..n -> RunIds] : n \in 0..MaxList }

\* the statuses await_runs takes as final
Terminal == {"completed", "failure"}

ExpInit ==
    /\ run_list \in RunLists
    /\ runState = [id \in RunIds |-> "queued"]
    /\ results = <<>>
    /\ epc = "while"
    /\ ei = 1

\* the server moves a run on: queued, running, then completed or failure
RunAdvances(id) ==
    /\ \/ runState[id] = "queued" /\ runState' = [runState EXCEPT ![id] = "running"]
       \/ runState[id] = "running" /\ \E t \in Terminal :
                                          runState' = [runState EXCEPT ![id] = t]
    /\ UNCHANGED <<jobVars, weiVars, tcpVars, modVars, runVars, run_list, results, epc, ei>>

\* `while len(results.keys()) < len(run_list):`, else `return results`
WhileTest ==
    /\ epc = "while"
    /\ IF Len(results) < Len(run_list)
       THEN epc' = "for" /\ ei' = 1
       ELSE epc' = "returned" /\ ei' = ei
    /\ UNCHANGED <<jobVars, weiVars, tcpVars, modVars, runVars, run_list, runState, results>>

\* one pass of `for id in run_list:` for an id whose state the server gives
ForBody ==
    /\ epc = "for"
    /\ ei <= Len(run_list)
    /\ LET id == run_list[ei] IN
       results' = (IF id \notin Keys(results) /\ runState[id] \in Terminal
                   THEN DictSet(results, id, runState[id])
                   ELSE results)
    /\ ei' = ei + 1
    /\ UNCHANGED <<jobVars, weiVars, tcpVars, modVars, runVars, run_list, runState, epc>>

\* query_run gets a response other than 200: _return_response gives
\* {"http_error": ...} and run_status["status"] raises KeyError
QueryRaises ==
    /\ epc = "for"
    /\ ei <= Len(run_list)
    /\ run_list[ei] \notin Keys(results)
    /\ epc' = "raised"
    /\ UNCHANGED <<jobVars, weiVars, tcpVars, modVars, runVars, run_list, runState, results, ei>>

\* the for loop is over: time.sleep(1)
ForEnd ==
    /\ epc = "for"
    /\ ei > Len(run_list)
    /\ epc' = "sleep"
    /\ UNCHANGED <<jobVars, weiVars, tcpVars, modVars, runVars, run_list, runState, results, ei>>

\* time.sleep(1) is over
Sleep ==
    /\ epc = "sleep"
    /\ epc' = "while"
    /\ UNCHANGED <<jobVars, weiVars, tcpVars, modVars, runVars, run_list, runState, results, ei>>

ExpNext ==
    \/ \E id \in RunIds : RunAdvances(id)
    \/ WhileTest
    \/ ForBody
    \/ QueryRaises
    \/ ForEnd
    \/ Sleep

\* the client at rest while the module or the runner is looked at
ExpIdle ==
    /\ run_list = <<>>
    /\ runState = [id \in RunIds |-> "queued"]
    /\ results = <<>>
    /\ epc = "none"
    /\ ei = 1

(***************************************************************************)
(* wei_tcp_callback (src/rpl_wei/executors/tcp_executor.py)                *)
(***************************************************************************)
\* a field of a dict literal, left out when v is "absent"
Field(k, v) == IF v = "absent" THEN <<>> ELSE <<Arg(k, v)>>

\* the dicts a module's reply can evaluate to: each of the three fields of
\* the protocol present or missing, with or without a field of its own
TcpDicts ==
    { Field("action_response", r) \o Field("action_msg", m)
        \o Field("action_log", l) \o Field("extra", x) :
        r \in {"absent", "succeeded", "failed"}, m \in {"absent", "msg", ""},
        l \in {"absent", "log", ""}, x \in {"absent", "x"} }

\* a reply that is the text of an expression with a call in it, such as
\* [__import__("os").system("id"), {"action_response": "succeeded"}][1]:
\* its value is this dict
CallValue == Field("action_response", "succeeded")

\* the replies tried: the text of a dict, the text of a list, text that is no
\* Python expression, and the text of an expression that makes a call
NoTcpResponse == [kind |-> "none", items |-> <<>>]
TcpResponses ==
    { [kind |-> "dict", items |-> d] : d \in TcpDicts }
    \cup { [kind |-> "list", items |-> <<>>], [kind |-> "text", items |-> <<>>],
           [kind |-> "call", items |-> CallValue] }

\* dict.get(key): None when the key is missing
Get(d, key) == IF key \in Keys(d) THEN DictGet(d, key) ELSE PyNone

TcpInit ==
    /\ tpc = "start"
    /\ tcpResp = NoTcpResponse
    /\ tcpOut = <<>>
    /\ tcpHist = <<>>
    /\ tcpRan = FALSE

\* socket.bind(...), msg = {...}, sock.send(str(msg).encode()), with a socket
\* object that takes these calls
TcpSend ==
    /\ tpc = "start"
    /\ tpc' = "sent"
    /\ UNCHANGED <<jobVars, weiVars, modVars, runVars, expVars, tcpResp, tcpOut, tcpHist, tcpRan>>

\* socket.bind(...) or sock.send(...) raises; bind is called on the class
\* socket with the address in the place of the socket object, which the
\* standard library answers with TypeError
TcpSendRaises ==
    /\ tpc = "start"
    /\ tpc' = "raised"
    /\ UNCHANGED <<jobVars, weiVars, modVars, runVars, expVars, tcpResp, tcpOut, tcpHist, tcpRan>>

\* tcp_response = sock.read().decode()
TcpRead(r) ==
    /\ tpc = "sent"
    /\ tcpResp' = r
    /\ tpc' = "read"
    /\ UNCHANGED <<jobVars, weiVars, modVars, runVars, expVars, tcpOut, tcpHist, tcpRan>>

\* tcp_response = eval(tcp_response): SyntaxError for text that is no
\* expression; an expression is evaluated as Python, the calls in it included
TcpEval ==
    /\ tpc = "read"
    /\ tpc' = (IF tcpResp.kind = "text" THEN "raised" ELSE "evaluated")
    /\ tcpRan' = (tcpResp.kind = "call")
    /\ UNCHANGED <<jobVars, weiVars, modVars, runVars, expVars, tcpResp, tcpOut, tcpHist>>

\* the three tcp_response.get(...) and the return; a list has no get
TcpGet ==
    /\ tpc = "evaluated"
    /\ IF tcpResp.kind \in {"dict", "call"}
       THEN /\ tcpOut' = <<Get(tcpResp.items, "action_response"),
                           Get(tcpResp.items, "action_msg"),
                           Get(tcpResp.items, "action_log")>>
            /\ tpc' = "returned"
       ELSE /\ tcpOut' = tcpOut
            /\ tpc' = "raised"
    /\ UNCHANGED <<jobVars, weiVars, modVars, runVars, expVars, tcpResp, tcpHist, tcpRan>>

\* run_flow: hist[step["step"].name] = {"action_response": str(...), ...}
RecordOutcome ==
    /\ tpc = "returned"
    /\ tcpHist' = <<Arg("action_response", Str(tcpOut[1])),
                    Arg("action_msg", Str(tcpOut[2])),
                    Arg("action_log", Str(tcpOut[3]))>>
    /\ tpc' = "recorded"
    /\ UNCHANGED <<jobVars, weiVars, modVars, runVars, expVars, tcpResp, tcpOut, tcpRan>>

TcpNext ==
    \/ TcpSend
    \/ TcpSendRaises
    \/ \E r \in TcpResponses : TcpRead(r)
    \/ TcpEval
    \/ TcpGet
    \/ RecordOutcome

\* no TCP dispatch is looked at
TcpIdle ==
    /\ tpc = "none"
    /\ tcpResp = NoTcpResponse
    /\ tcpOut = <<>>
    /\ tcpHist = <<>>
    /\ tcpRan = FALSE

(***************************************************************************)
(* submit_job (src/rpl_wei/server.py)                                      *)
(***************************************************************************)
\* number of jobs submitted to the server
NumJobs == 3

Sub == 1..NumJobs

NoAnswer == [status |-> "none", jobs_ahead |-> 0, job_id |-> 0]

JobInit ==
    /\ queue = <<>>
    /\ jpc = [s \in Sub |-> "idle"]
    /\ answer = [s \in Sub |-> NoAnswer]

\* job = task_queue.enqueue(..., job_id=job_id): the job is put at the end of
\* the queue. submit_job has no await in it, so the server's event loop runs
\* one submission at a time
Enqueue(s) ==
    /\ jpc[s] = "idle"
    /\ \A q \in Sub : jpc[q] # "enqueued"
    /\ queue' = Append(queue, s)
    /\ jpc' = [jpc EXCEPT ![s] = "enqueued"]
    /\ UNCHANGED <<weiVars, tcpVars, modVars, runVars, expVars, answer>>

\* task_queue.enqueue raises (no connection to the queue's store): the except
\* branch answers {"status": "failed", "error": ...}
EnqueueRaises(s) ==
    /\ jpc[s] = "idle"
    /\ \A q \in Sub : jpc[q] # "enqueued"
    /\ answer' = [answer EXCEPT ![s] = [status |-> "failed", jobs_ahead |-> 0, job_id |-> 0]]
    /\ jpc' = [jpc EXCEPT ![s] = "answered"]
    /\ UNCHANGED <<weiVars, tcpVars, modVars, runVars, expVars, queue>>

\* jobs_ahead = len(task_queue.jobs) and the response {"status": "success",
\* "jobs_ahead": jobs_ahead, "job_id": job.get_id(), ...}
CountJobs(s) ==
    /\ jpc[s] = "enqueued"
    /\ answer' = [answer EXCEPT ![s] =
                    [status |-> "success", jobs_ahead |-> Len(queue), job_id |-> s]]
    /\ jpc' = [jpc EXCEPT ![s] = "answered"]
    /\ UNCHANGED <<weiVars, tcpVars, modVars, runVars, expVars, queue>>

\* a worker process takes the oldest waiting job off the queue
WorkerPicks ==
    /\ queue # <<>>
    /\ queue' = Tail(queue)
    /\ UNCHANGED <<weiVars, tcpVars, modVars, runVars, expVars, jpc, answer>>

JobNext ==
    \/ \E s \in Sub : Enqueue(s)
    \/ \E s \in Sub : EnqueueRaises(s)
    \/ \E s \in Sub : CountJobs(s)
    \/ WorkerPicks

JobIdle ==
    /\ queue = <<>>
    /\ jpc = [s \in Sub |-> "none"]
    /\ answer = [s \in Sub |-> NoAnswer]

(***************************************************************************)
(* The WEI client (src/rpl_wei/wei_client_base.py)                         *)
(***************************************************************************)
\* self.run_id = None
NoRunId == 0

\* the flowdefs of the client's workflow: up to MaxSteps step names
WeiFlowdefs ==
    UNION { [1..n -> {"transfer", "measure", "mix"}] : n \in 0..MaxSteps }

\* __init__: self.run_id = uuid4(), the loggers are set up and
\* self.run_logger = self._get_logger("runLogger")
WeiInit ==
    /\ wflowdef \in WeiFlowdefs
    /\ wei_run_id = 1
    /\ run_logger = "runLogger"
    /\ wpc = "ready"
    /\ wi = 1
    /\ executed = <<>>
    /\ wcalls = 0
    /\ usedIds = <<>>

\* run_flow up to the loop: `if self.run_id is None` a new uuid4() is taken
\* and _setup_logger("runLogger", ...) is called, which adds handlers to the
\* logger and assigns nothing to self.run_logger
WeiRunFlow ==
    /\ wpc = "ready"
    /\ wcalls < MaxRuns
    /\ wei_run_id' = (IF wei_run_id = NoRunId THEN Len(usedIds) + 1 ELSE wei_run_id)
    /\ wcalls' = wcalls + 1
    /\ wi' = 1
    /\ executed' = <<>>
    /\ wpc' = "loop"
    /\ UNCHANGED <<jobVars, tcpVars, modVars, runVars, expVars, wflowdef, run_logger, usedIds>>

\* _execute_step: self.run_logger.info("Started running step ..."), which
\* raises AttributeError when self.run_logger is None; print(step)
WeiStepStarts ==
    /\ wpc = "loop"
    /\ wi <= Len(wflowdef)
    /\ wpc' = (IF run_logger = PyNone THEN "raised" ELSE "sleep")
    /\ UNCHANGED <<jobVars, tcpVars, modVars, runVars, expVars, wflowdef, wei_run_id, run_logger, wi,
                   executed, wcalls, usedIds>>

\* _execute_step: time.sleep(10) is over, self.run_logger.info("Finished ...")
WeiStepFinishes ==
    /\ wpc = "sleep"
    /\ executed' = Append(executed, wflowdef[wi])
    /\ wi' = wi + 1
    /\ wpc' = "loop"
    /\ UNCHANGED <<jobVars, tcpVars, modVars, runVars, expVars, wflowdef, wei_run_id, run_logger,
                   wcalls, usedIds>>

\* the loop is over: the completion is logged and _cleanup() sets
\* self.run_id = None and self.run_logger = None
WeiCleanup ==
    /\ wpc = "loop"
    /\ wi > Len(wflowdef)
    /\ usedIds' = Append(usedIds, wei_run_id)
    /\ wei_run_id' = NoRunId
    /\ run_logger' = PyNone
    /\ wpc' = "ready"
    /\ UNCHANGED <<jobVars, tcpVars, modVars, runVars, expVars, wflowdef, wi, executed, wcalls>>

WeiNext ==
    \/ WeiRunFlow
    \/ WeiStepStarts
    \/ WeiStepFinishes
    \/ WeiCleanup

WeiIdle ==
    /\ wflowdef = <<>>
    /\ wei_run_id = NoRunId
    /\ run_logger = PyNone
    /\ wpc = "none"
    /\ wi = 1
    /\ executed = <<>>
    /\ wcalls = 0
    /\ usedIds = <<>>

(***************************************************************************)
(* Specifications                                                          *)
(***************************************************************************)
vars == <<modVars, runVars, expVars, tcpVars, jobVars, weiVars>>

Init == ModInit /\ RunIdle /\ ExpIdle /\ TcpIdle /\ JobIdle /\ WeiIdle

Next == ModNext

Spec == Init /\ [][Next]_vars

\* every thread that can take a step eventually takes one
FairSpec ==
    /\ Spec
    /\ WF_vars(StartupThread)
    /\ WF_vars(Lifespan /\ lifespan # "serving")
    /\ \A r \in Req : WF_vars(Request(r) /\ pc[r] # "idle")

InitRun == ModIdle /\ RunInit /\ ExpIdle /\ TcpIdle /\ JobIdle /\ WeiIdle

NextRun == RunNext

SpecRun == InitRun /\ [][NextRun]_vars

InitRunRepeated == ModIdle /\ RunInitRepeated /\ ExpIdle /\ TcpIdle /\ JobIdle /\ WeiIdle

SpecRunRepeated == InitRunRepeated /\ [][NextRun]_vars

InitRunOtherPayload ==
    ModIdle /\ RunInitOtherPayload /\ ExpIdle /\ TcpIdle /\ JobIdle /\ WeiIdle

SpecRunOtherPayload == InitRunOtherPayload /\ [][NextRun]_vars

InitExp == ModIdle /\ RunIdle /\ ExpInit /\ TcpIdle /\ JobIdle /\ WeiIdle

NextExp == ExpNext

SpecExp == InitExp /\ [][NextExp]_vars

InitTcp == ModIdle /\ RunIdle /\ ExpIdle /\ TcpInit /\ JobIdle /\ WeiIdle

NextTcp == TcpNext

SpecTcp == InitTcp /\ [][NextTcp]_vars

InitJobs == ModIdle /\ RunIdle /\ ExpIdle /\ TcpIdle /\ JobInit /\ WeiIdle

NextJobs == JobNext

SpecJobs == InitJobs /\ [][NextJobs]_vars

InitWei == ModIdle /\ RunIdle /\ ExpIdle /\ TcpIdle /\ JobIdle /\ WeiInit

NextWei == WeiNext

SpecWei == InitWei /\ [][NextWei]_vars

(***************************************************************************)
(* Properties of the module's action lock (Spec, FairSpec)                 *)
(***************************************************************************)

\* C1: at most one request is between a successful get_action_lock and its
\* release at any instant.
OneHolderAtATime == Cardinality({r \in Req : Holding(r)}) <= 1

\* C4: an acquire attempt made while the status is not IDLE is rejected: the
\* request is answered 409 with a failed StepResponse, action_handler is
\* never invoked for it, and the attempt leaves status and error as they were.
RejectedUnlessIdle ==
    /\ [](\A r \in Req :
            seen[r] \in {"INIT", "BUSY", "ERROR"} =>
                /\ pc[r] = "done"
                /\ resp[r] = NotReadyResponse
                /\ calls[r] = "none")
    /\ [][\A r \in Req :
            (pc[r] = "get_lock" /\ pc'[r] # "get_lock" /\ status # "IDLE") =>
                /\ seen'[r] = status
                /\ status' = status
                /\ error' = error]_vars

\* C4 witness: a request tried to acquire while another one held the lock in
\* BUSY, and was answered 409.
RejectedWhileBusy ==
    \E r, q \in Req :
        /\ seen[r] = "BUSY"
        /\ resp[r] = NotReadyResponse
        /\ pc[q] = "handler"

\* C5: once the status is ERROR, no event takes it to another status.
ErrorIsTerminal == [][status = "ERROR" => status' = "ERROR"]_vars

\* C6: when release_action_lock has run for an admitted request whose handler
\* returned, the status is IDLE again.
ReleaseRestoresIdle ==
    [][\A r \in Req :
          (pc[r] \in {"release", "release_set"} /\ pc'[r] = "validate") =>
              status' = "IDLE"]_vars

\* C7: once the handler of an admitted request has raised and the route has
\* answered the failed StepResponse with the exception's log, the module is
\* in ERROR (not BUSY) with the exception's text in state.error, and it stays
\* so: a status of ERROR is what rejects every later request.
HandlerErrorSticks ==
    \A r \in Req :
        resp[r] = ExceptionResponse =>
            /\ status = "ERROR"
            /\ error # "None"

\* C8: an admitted request for an unregistered action is answered a failed
\* StepResponse, runs no action function, and leaves the module in IDLE with
\* state.error as it was.
UnknownActionLeavesIdle ==
    /\ [](\A r \in Req :
            (act[r] = "nosuch" /\ seen[r] = "IDLE" /\ pc[r] = "done") =>
                /\ resp[r] = [code |-> 200, status |-> "FAILED", log |-> "handler"]
                /\ calls[r] = "handler")
    /\ [][\A r \in Req :
            (act[r] = "nosuch" /\ pc[r] # pc'[r] /\ pc[r] # "idle") =>
                /\ error' = error
                /\ (pc'[r] = "validate" => status' = "IDLE")]_vars

\* C9: until the startup handler has finished the status reads INIT and no
\* request is admitted.
InitUntilStartupDone ==
    startup = "handler" =>
        /\ status = "INIT"
        /\ \A r \in Req : seen[r] # "IDLE"

\* C10: a startup handler that returns leads to IDLE; one that raises leads
\* to ERROR with the exception's text recorded, and the module is never IDLE.
StartupOutcome ==
    /\ (startup = "set_idle") ~> (status = "IDLE")
    /\ (startup = "eh_status") ~> (status = "ERROR" /\ startup = "done_failed")
    /\ [][(startup = "eh_error" /\ startup' # "eh_error") => error' = "startup_error"]_vars
    /\ [](startup \in {"eh_status", "eh_error", "extra_error", "done_failed"} =>
            status # "IDLE")
    /\ [](startup = "done_failed" => (status = "ERROR" /\ error # "None"))

\* C10 witness: the startup handler raised, the module is in ERROR with the
\* text of that exception, and a request made afterwards met ERROR.
StartupFailedSeen ==
    /\ startup = "done_failed"
    /\ status = "ERROR"
    /\ error = "startup_error"
    /\ \E r \in Req : seen[r] = "ERROR"

\* C34: the status changes to BUSY only from IDLE, and once it is not INIT it
\* is never INIT again.
BusyOnlyFromIdle ==
    [][/\ (status' = "BUSY" /\ status # "BUSY") => status = "IDLE"
       /\ status # "INIT" => status' # "INIT"]_vars

(***************************************************************************)
(* Properties of the workflow runner (SpecRun)                             *)
(***************************************************************************)
\* the names of the flowdef's steps, in declared order
StepNames == [j \in 1..Len(flowdef) |-> flowdef[j].name]

\* C2: a run in which every dispatch returned produces a record whose
\* history keys are the names of all flowdef steps, in declared order.
HistoryHasEveryStep ==
    (record.returned /\ UniqueNames(flowdef)) => KeySeq(record.hist) = StepNames

\* C3: a run never has two dispatches outstanding, and when a step is
\* dispatched every step dispatched before it has returned and has its
\* outcome in the history.
SequentialDispatch ==
    /\ Cardinality(outstanding) <= 1
    /\ \A k \in 1..Len(dispatched) :
          k < Len(dispatched) =>
              /\ k \notin outstanding
              /\ dispatched[k].name \in Keys(hist)
    /\ Len(hist) <= Len(dispatched)

\* C3 witness: the second step of a run is being dispatched and the outcome
\* of the first one is in the history.
SecondStepInFlight ==
    /\ Len(dispatched) = 2
    /\ outstanding = {2}
    /\ KeySeq(hist) = <<dispatched[1].name>>

\* the names of the steps handed to execute_step so far
DispatchedNames == {dispatched[k].name : k \in 1..Len(dispatched)}

\* C11: when run_flow has returned its record and the record holds a FAILED
\* outcome under the name of a flowdef step, every later step of the flowdef
\* has been dispatched as well.
FailedStepDoesNotStop ==
    record.returned =>
        \A i, j \in 1..Len(flowdef) :
            (/\ i < j
             /\ flowdef[i].name \in Keys(record.hist)
             /\ DictGet(record.hist, flowdef[i].name) = "FAILED")
            => flowdef[j].name \in DispatchedNames

\* the k-th dispatch is over and left no outcome in the history: execute_step
\* raised (step names are unique within a flowdef)
HardFailedAt(k) ==
    /\ k \in 1..Len(dispatched)
    /\ k \notin outstanding
    /\ dispatched[k].name \notin Keys(hist)

\* C12: once the dispatch of step k has raised, step k is the last step
\* dispatched, the run is over with the exception and run_flow has returned
\* no record.
HardFailureEndsRun ==
    \A k \in 1..Len(dispatched) :
        HardFailedAt(k) =>
            /\ Len(dispatched) = k
            /\ rpc = "raised"
            /\ ~record.returned

\* C12 witness: the dispatch of a step raised while the resolved step list
\* still held a step after it.
HardFailureBeforeLastStep ==
    \E k \in 1..Len(dispatched) : HardFailedAt(k) /\ k < Len(steps)

\* self.hist: set to {} by __init__ and written nowhere else; run_flow
\* collects the outcomes in a local dict of its own
SelfHist == <<>>

\* the history a caller can read once the run is over: the "hist" of the
\* record run_flow returned or, when run_flow raised and its local dict went
\* with the frame, the runner's self.hist
AvailableHist == IF record.returned THEN record.hist ELSE SelfHist

\* C13: after the dispatch of step k has raised and the run is over, the
\* outcomes recorded for the steps dispatched before k are in the history
\* the run leaves behind.
HistorySurvivesAbort ==
    \A k \in 1..Len(dispatched) :
        (HardFailedAt(k) /\ rpc = "raised") =>
            \A i \in 1..(k - 1) : dispatched[i].name \in Keys(AvailableHist)

\* the module of the step is declared in the workflow's module list
Declared(step) == \E m \in 1..Len(wfModules) : wfModules[m] = step.module

\* C14: once the constructor has run for a workflow with a step whose module
\* is not in the workcell or not in the workflow's module list, construction
\* has failed, and no step has been dispatched and no notification posted.
MissingModuleFailsConstruction ==
    (/\ rpc # "new"
     /\ \E j \in 1..Len(flowdef0) :
            flowdef0[j].module \notin wcModules \/ ~Declared(flowdef0[j]))
    => /\ rpc = "ctor_failed"
       /\ dispatched = <<>>
       /\ outstanding = {}
       /\ notes = <<>>

\* C14 witness: construction failed for a workflow whose second step names a
\* module the workcell has but the workflow's module list lacks.
UndeclaredModuleRejected ==
    /\ rpc = "ctor_failed"
    /\ Len(flowdef0) >= 2
    /\ flowdef0[2].module \in wcModules
    /\ ~Declared(flowdef0[2])
    /\ Declared(flowdef0[1])

\* C15: after a construction that failed, no run or result directory exists
\* and the args of every step of the workflow are what they were before.
FailedConstructionLeavesNothing ==
    rpc = "ctor_failed" => (~dirs /\ flowdef = flowdef0)

\* C16: once init_flow has run, the args of every step in the workflow's
\* flowdef are what they were before it ran.
ResolutionKeepsWorkflowSteps ==
    rpc # "new" => flowdef = flowdef0

\* C17: when run_flow is given the payload the constructor was given, its
\* init_flow call yields the resolved steps the constructor's call yielded:
\* the same locations maps and the same args.
SecondResolutionSame ==
    [][(rpc = "constructed" /\ rpc' # "constructed" /\ ctorPayload = runPayload)
          => (steps' = selfSteps /\ flowdef' = flowdef)]_vars

\* every workflow module is in the workcell and every step's module is in
\* both: init_flow's module checks pass
ModulesOk ==
    /\ \A m \in 1..Len(wfModules) : wfModules[m] \in wcModules
    /\ \A j \in 1..Len(flowdef) : flowdef[j].module \in wcModules /\ Declared(flowdef[j])

\* C18: the constructor's init_flow, for a workflow that passes the module
\* checks, returns resolved steps in which every arg whose text is a location
\* name of the step's module holds the location's value and has the name in
\* the step's locations map under the arg's key, and every other arg has no
\* locations entry and, with no payload, its old value.
LocationsSubstituted ==
    [][(rpc = "new" /\ rpc' # "new" /\ ModulesOk) =>
          /\ rpc' = "constructed"
          /\ \A j \in 1..Len(flowdef) :
                flowdef[j].module \in DOMAIN Locations =>
                  \A a \in 1..Len(flowdef[j].args) :
                    \E e \in 1..Len(selfSteps') :
                      /\ selfSteps'[e].step = j
                      /\ LET arg == flowdef[j].args[a]
                             names == DOMAIN Locations[flowdef[j].module]
                             locations == selfSteps'[e].locations
                         IN IF Str(arg.v) \in names
                            THEN /\ flowdef'[j].args[a].v =
                                        Locations[flowdef[j].module][Str(arg.v)]
                                 /\ arg.k \in Keys(locations)
                                 /\ DictGet(locations, arg.k) = arg.v
                            ELSE /\ arg.k \notin Keys(locations)
                                 /\ (~ctorPayload.isDict =>
                                        flowdef'[j].args[a] = arg)]_vars

\* the arg value is the reference "payload.<k>" of the n-th payload item
RefersTo(v, payload, n) == v = PayloadKey(payload.items[n].k)

\* the arg value is a literal: no payload reference, no location name of the
\* step's module and not "local_run_results"
Literal(step, v, payload) ==
    /\ \A n \in 1..Len(payload.items) : ~RefersTo(v, payload, n)
    /\ (HasLocations(step) => Str(v) \notin DOMAIN Locations[step.module])
    /\ v # "local_run_results"

\* C19: a constructor's init_flow that is given a payload and returns leaves
\* every arg that was the reference "payload.<k>" of a payload key k with the
\* value payload[k], and every literal arg as it was.
PayloadInjectedEverywhere ==
    [][(rpc = "new" /\ rpc' = "constructed" /\ ctorPayload.isDict) =>
          \A j \in 1..Len(flowdef) :
            \A a \in 1..Len(flowdef[j].args) :
              LET arg == flowdef[j].args[a] IN
              /\ \A n \in 1..Len(ctorPayload.items) :
                    RefersTo(arg.v, ctorPayload, n) =>
                        flowdef'[j].args[a] = Arg(arg.k, ctorPayload.items[n].v)
              /\ Literal(flowdef[j], arg.v, ctorPayload) =>
                    flowdef'[j].args[a] = arg]_vars

\* C20: when run_flow was given a payload and has returned, every flowdef
\* step without args is in the resolved step list at its flowdef position
\* and was dispatched there with empty args.
NoArgStepDispatched ==
    (record.returned /\ runPayload.isDict) =>
        /\ Len(steps) = Len(flowdef)
        /\ Len(dispatched) = Len(flowdef)
        /\ \A j \in 1..Len(flowdef) :
              Len(flowdef[j].args) = 0 =>
                  /\ steps[j].step = j
                  /\ dispatched[j] = [name |-> flowdef[j].name, args |-> <<>>]

\* the positions of the args of a step whose value is "local_run_results"
ResultDirArgs(step) ==
    {a \in 1..Len(step.args) : step.args[a].v = "local_run_results"}

\* C21: every dispatched step whose definition has exactly one arg with the
\* value "local_run_results" is dispatched with the result directory in
\* that arg, with or without a payload.
ResultDirInjected ==
    \A k \in 1..Len(dispatched) :
        \A j \in 1..Len(flowdef0) :
            (/\ flowdef0[j].name = dispatched[k].name
             /\ Cardinality(ResultDirArgs(flowdef0[j])) = 1)
            => \A a \in ResultDirArgs(flowdef0[j]) :
                   dispatched[k].args[a] = Arg(flowdef0[j].args[a].k, ResultDir)

\* C22: once the constructor has run for a workflow with a step that has two
\* or more args with the value "local_run_results", construction has failed
\* and nothing has been dispatched.
TwoResultDirArgsRejected ==
    (/\ rpc # "new"
     /\ \E j \in 1..Len(flowdef0) : Cardinality(ResultDirArgs(flowdef0[j])) >= 2)
    => (rpc = "ctor_failed" /\ dispatched = <<>>)

\* the k of an arg value "payload.<k>", "" for any other value
RefKey(v) ==
    CASE v = "payload.foo" -> "foo"
      [] v = "payload.missing" -> "missing"
      [] OTHER -> ""

\* the value is a payload reference whose key the payload does not hold
AbsentRef(v, payload) ==
    /\ RefKey(v) # ""
    /\ \A n \in 1..Len(payload.items) : ~RefersTo(v, payload, n)

\* a step of the run in which init_flow is executed, and the payload it gets
Resolving ==
    \/ rpc = "new" /\ rpc' # "new"
    \/ rpc \in {"constructed", "returned"} /\ rpc' # rpc
ResolutionPayload == IF rpc = "new" THEN ctorPayload ELSE runPayload

\* C23: every init_flow call leaves an arg that is "payload.<k>" for a key k
\* absent from its payload as it was, and fails only when a module check or
\* a location lookup fails.
MissingKeyPassesThrough ==
    [][Resolving =>
          /\ \A j \in 1..Len(flowdef) :
                \A a \in 1..Len(flowdef[j].args) :
                    AbsentRef(flowdef[j].args[a].v, ResolutionPayload) =>
                        flowdef'[j].args[a] = flowdef[j].args[a]
          /\ rpc' \in {"ctor_failed", "raised"} =>
                (~ModulesOk \/ \E j \in 1..Len(flowdef) : KeyErrorAt(flowdef[j]) > 0)]_vars

\* C23 witness: with a payload that holds other keys, a step has been
\* dispatched with an arg that is still the reference to the absent key.
MissingKeyDispatched ==
    /\ Len(runPayload.items) > 0
    /\ Len(ctorPayload.items) > 0
    /\ \E k \in 1..Len(dispatched) :
          \E a \in 1..Len(dispatched[k].args) :
              AbsentRef(dispatched[k].args[a].v, runPayload)

\* the args of a step definition under the key `key` whose value names a
\* location registered for the step's module
LocationArgsAt(step, key) ==
    {a \in 1..Len(step.args) :
        /\ step.args[a].k = key
        /\ step.module \in DOMAIN Locations
        /\ Str(step.args[a].v) \in DOMAIN Locations[step.module]}

\* C24: when a run made by constructing a runner and calling run_flow has
\* returned, every dispatched step whose `target` arg named a location of
\* its module has a notification for that location with the run's id.
TargetNotified ==
    record.returned =>
        \A j \in 1..Len(flowdef0) :
            flowdef0[j].name \in DispatchedNames =>
                \A a \in LocationArgsAt(flowdef0[j], "target") :
                    \E n \in 1..Len(notes) :
                        notes[n] = [location |-> flowdef0[j].args[a].v, run_id |-> RunId]

NotesOf(entry) ==
    (IF "source" \in Keys(entry.locations)
     THEN <<[location |-> DictGet(entry.locations, "source"), run_id |-> ""]>>
     ELSE <<>>)
    \o (IF "target" \in Keys(entry.locations)
        THEN <<[location |-> DictGet(entry.locations, "target"), run_id |-> RunId]>>
        ELSE <<>>)

RECURSIVE NotesUpTo(_)
NotesUpTo(n) == IF n = 0 THEN <<>> ELSE NotesUpTo(n - 1) \o NotesOf(steps[n])

NotificationFailureTolerated ==
    rpc = "raised" => \E k \in 1..Len(dispatched) : HardFailedAt(k)

\* whether s is a subsequence of t: the elements of s occur in t in the
\* order they have in s
RECURSIVE IsSubseq(_, _)
IsSubseq(s, t) ==
    IF s = <<>> THEN TRUE
    ELSE IF t = <<>> THEN FALSE
    ELSE IF Head(s) = Head(t) THEN IsSubseq(Tail(s), Tail(t))
    ELSE IsSubseq(s, Tail(t))

\* C27: in every state of a run the keys of the history, and of a returned
\* record's history, are a subsequence of the flowdef's step names.
HistoryFollowsFlowdef ==
    /\ IsSubseq(KeySeq(hist), StepNames)
    /\ IsSubseq(KeySeq(record.hist), StepNames)

\* C27 witness: a record has been returned for a flowdef of three steps
\* whose history holds the first and the third step, in that order.
HistorySkipsMiddleStep ==
    /\ record.returned
    /\ Len(flowdef) = 3
    /\ KeySeq(record.hist) = <<flowdef[1].name, flowdef[3].name>>

\* C28: the run id in the record a run_flow call returns differs from the
\* run id in the record of every earlier execution.
FreshRunIdPerExecution ==
    record.returned =>
        \A n \in 1..Len(earlierIds) : earlierIds[n] # record.run_id

(***************************************************************************)
(* Properties of Experiment.await_runs (SpecExp)                           *)
(***************************************************************************)
\* C30: when await_runs tests its loop condition with a final status
\* collected for every run named in run_list, it returns: the results hold
\* as many entries as the condition asks for.
AwaitReturnsWhenAllFinal ==
    (/\ epc = "while"
     /\ \A n \in 1..Len(run_list) : run_list[n] \in Keys(results))
    => Len(results) >= Len(run_list)

(***************************************************************************)
(* Properties of the TCP dispatch (SpecTcp)                                *)
(***************************************************************************)
\* the reply is no dict or lacks one of the three fields of the protocol
Malformed(r) ==
    \/ r.kind \in {"list", "text"}
    \/ r.kind = "dict" /\ ~({"action_response", "action_msg", "action_log"}
                                \subseteq Keys(r.items))

RunPayloadDispatched ==
    \A k \in 1..Len(dispatched) :
      \A j \in 1..Len(flowdef0) :
        flowdef0[j].name = dispatched[k].name =>
          \A n \in 1..Len(runPayload.items) :
            \A a \in 1..Len(flowdef0[j].args) :
              (/\ RefersTo(flowdef0[j].args[a].v, runPayload, n)
               /\ \A b \in 1..(a - 1) :
                     ~RefersTo(flowdef0[j].args[b].v, runPayload, n))
                => dispatched[k].args[a].v = runPayload.items[n].v

(***************************************************************************)
(* Workflows with a repeated step name (SpecRunRepeated)                   *)
(***************************************************************************)
\* C33: the history that run_flow returns has one entry for every step that
\* was dispatched in the run.
HistoryEntryPerDispatch ==
    record.returned => Len(record.hist) = Len(dispatched)

(***************************************************************************)
(* Properties of job submission (SpecJobs)                                 *)
(***************************************************************************)
\* the number of jobs that wait in the queue q in front of job s; 0 when a
\* worker has taken s
AheadOf(s, q) ==
    IF \E i \in 1..Len(q) : q[i] = s
    THEN (CHOOSE i \in 1..Len(q) : q[i] = s) - 1
    ELSE 0

\* C35: the jobs_ahead that a successful submission answers with is the
\* number of jobs waiting in the queue in front of the submitted job, the
\* job itself not counted.
JobsAheadExcludesSelf ==
    [][\A s \in Sub :
          (jpc[s] = "enqueued" /\ jpc'[s] = "answered") =>
              answer'[s].jobs_ahead = AheadOf(s, queue)]_vars

(***************************************************************************)
(* Properties of the WEI client (SpecWei)                                  *)
(***************************************************************************)
\* C36: a run_flow call made after an earlier one has completed has a run id
\* that no earlier call had, raises nothing, and executes the steps of the
\* flowdef in declared order.
SecondRunFlowLikeFirst ==
    wcalls >= 2 =>
        /\ wpc # "raised"
        /\ wpc # "ready" => \A n \in 1..Len(usedIds) : usedIds[n] # wei_run_id
        /\ executed = SubSeq(wflowdef, 1, Len(executed))

====
